---- MODULE Spec2Model ----
(***************************************************************************)
(* Model of the local battery control executor of the IntuiTherm Home      *)
(* Assistant integration (custom_components/intuitherm/battery_control.py) *)
(* together with the shape of the coordinator data it reads.               *)
(*                                                                         *)
(* Time is counted in whole seconds of UTC; a local datetime is its        *)
(* wall-clock reading together with its fold.  Power is counted in watts     *)
(* (one thousandth of the kW unit of the plan).  Every await of the code   *)
(* is a point at which other tasks, timers and stop()/start() may run, so  *)
(* one action of the model covers the code between two awaits.             *)
(***************************************************************************)
EXTENDS Integers, Sequences, FiniteSets, TLC

VARIABLES
    enabled,          \* BatteryControlExecutor._enabled
    last_execution,   \* BatteryControlExecutor._last_execution (NoTime = None)
    next_execution,   \* BatteryControlExecutor._next_execution (NoTime = None)
    cancel_timer,     \* instant the armed timer is set for (NoTime = no timer)
    config,           \* the config dict handed to the constructor
    data,             \* coordinator.data
    timers,           \* instants of the timers pending in the host's event loop
    clock,            \* dt_util.now(), as an instant
    tasks,            \* the cycle tasks created by hass.async_create_task
    states,           \* hass.states: the state of the two battery sensors
    override          \* the last manual_override service call and its POST

vars == <<enabled, last_execution, next_execution, cancel_timer, config, data,
          timers, clock, tasks, states, override>>

----------------------------------------------------------------------------
(* Program constants.                                                      *)

\* CONTROL_INTERVAL = timedelta(minutes=15), in seconds.
CONTROL_INTERVAL == 900
\* timedelta(hours=1), in seconds.
Hour == 3600
\* "if time_diff < 30" : the matching tolerance in seconds.
Tolerance == 30
\* max(0, min(50, power_kw)): the generic clamp, 50 kW in watts.
GenericClampW == 50000
\* None for a time field.
NoTime == -1

(* Bounds of the model.                                                    *)

\* Cycle tasks that may be in flight (spawned and not finished) at once.
MaxTasks == 2
\* Length of the longest control plan the backend is taken to send.
MaxPlanLen == 2
\* Number of 15-minute boundaries after the first one that the clock may pass.
MaxSlots == 1

Abs(x) == IF x < 0 THEN -x ELSE x
Min(a, b) == IF a < b THEN a ELSE b
Max(a, b) == IF a < b THEN b ELSE a

----------------------------------------------------------------------------
(* TimeAligner: wall-clock arithmetic of _get_next_aligned_time and of the *)
(* current_aligned computation inside _execute_control.                    *)

\* The time zone of the host (dt_util.DEFAULT_TIME_ZONE) is config.utc_offset,
\* its standard offset from UTC, and config.dst_end, the instant at which its
\* summer time ends and the clocks are set back one hour (NoTime for a zone
\* without summer time).
\* tzinfo.utcoffset at instant t.
UtcOffset(t) ==
    IF config.dst_end # NoTime /\ t < config.dst_end
    THEN config.utc_offset + Hour
    ELSE config.utc_offset
\* datetime.fold of the local datetime of instant t: 1 in the hour after the
\* clocks were set back, whose wall-clock readings occur a second time.
Fold(t) ==
    IF config.dst_end # NoTime /\ config.dst_end <= t /\ t < config.dst_end + Hour
    THEN 1 ELSE 0
\* dt_util.now() / dt_util.as_local at instant t: the local datetime.
Local(t) == [wall |-> t + UtcOffset(t), fold |-> Fold(t)]
\* The instant of the local datetime with reading wall and fold (what
\* async_track_point_in_time and astimezone(UTC) make of it): a reading that
\* occurs twice is the earlier instant with fold 0, the later with fold 1.
ToUtc(wall, fold) ==
    IF config.dst_end = NoTime THEN wall - config.utc_offset
    ELSE LET repeated == config.dst_end + config.utc_offset IN
         IF wall < repeated THEN wall - config.utc_offset - Hour
         ELSE IF wall < repeated + Hour /\ fold = 0
         THEN wall - config.utc_offset - Hour
         ELSE wall - config.utc_offset
\* datetime.minute of a wall-clock reading.
MinuteOf(wall) == (wall \div 60) % 60
\* wall.replace(minute=m, second=0, microsecond=0); replace keeps the fold.
ReplaceMinute(wall, m) == (wall \div Hour) * Hour + m * 60

\* The aligner rounding the minute down instead of up.
NextAlignedRoundingDown(t) ==
    LET now == Local(t)
        aligned_minute == (MinuteOf(now.wall) \div 15) * 15
    IN  ToUtc(ReplaceMinute(now.wall, aligned_minute), now.fold)
\* _get_next_aligned_time with dt_util.now() = t; the result as an instant.
\* Adding timedelta(hours=1) adds to the wall-clock reading and gives fold 0.
_get_next_aligned_time(t) ==
    LET now == Local(t)
        aligned_minute == ((MinuteOf(now.wall) \div 15) + 1) * 15
    IN  IF aligned_minute >= 60
        THEN ToUtc(ReplaceMinute(now.wall, 0) + Hour, 0)
        ELSE ToUtc(ReplaceMinute(now.wall, aligned_minute), now.fold)

\* current_aligned of _execute_control (lines 206-208): a local datetime.
CurrentAligned(t) ==
    LET now == Local(t)
        aligned_minute == (MinuteOf(now.wall) \div 15) * 15
    IN  [wall |-> ReplaceMinute(now.wall, aligned_minute), fold |-> now.fold]

----------------------------------------------------------------------------
(* PlanStore: the shape of coordinator.data.                               *)
(*                                                                         *)
(* A target_timestamp is [kind, wall, tz]: kind "missing" (key absent or   *)
(* None), "empty" (the empty string), "number" (a JSON number), "garbage"  *)
(* (a string that is no ISO date) or "iso" (an ISO date: wall-clock        *)
(* seconds wall followed by the zone designator tz).                       *)

Ts(kind, wall, tz) == [kind |-> kind, wall |-> wall, tz |-> tz]
MissingTs == Ts("missing", 0, "")
EmptyTs   == Ts("empty", 0, "")
NumberTs  == Ts("number", 0, "")
GarbageTs == Ts("garbage", 0, "")

Control(ts, action, power) ==
    [target_timestamp |-> ts, control_action |-> action, power_setpoint |-> power]
NoControl == Control(MissingTs, "", 0)

\* coordinator.data is None.
NoData == [present |-> FALSE, control |-> "None", control_plan |-> "None",
           controls |-> <<>>]
\* control: "None" (status fetch failed), "no_key" (a dict without the key),
\* "off" / "on" (automatic_control_enabled false / true).
\* control_plan: "None" or "dict"; controls: its "controls" list.
Data(control, control_plan, controls) ==
    [present |-> TRUE, control |-> control, control_plan |-> control_plan,
     controls |-> controls]

----------------------------------------------------------------------------
(* ControlMatcher: the loop of _execute_control, lines 203-235.            *)

\* control_time_str.replace("Z", "+00:00")
ReplaceZ(ts) == IF ts.tz = "Z" THEN [ts EXCEPT !.tz = "+00:00"] ELSE ts
\* Zone designators datetime.fromisoformat accepts, with their UTC offset.
IsoOffset(tz) ==
    CASE tz = "+00:00" -> 0
      [] tz = "+01:00" -> Hour
      [] tz = "+02:00" -> 2 * Hour
\* datetime.fromisoformat raises ValueError on this string.
FromIsoFails(ts) == ts.kind # "iso" \/ ts.tz \notin {"+00:00", "+01:00", "+02:00"}
\* datetime.fromisoformat(s): the instant the string names.
FromIso(ts) == ts.wall - IsoOffset(ts.tz)
\* (a - b).total_seconds() of two local datetimes: both carry the tzinfo of the
\* host, and Python subtracts the wall-clock readings of datetimes with the
\* same tzinfo, whatever their folds.
TimeDiff(a, b) == a.wall - b.wall

\* The tolerance test with the bound included.
WithinToleranceInclusive(control_time, current_aligned) ==
    Abs(TimeDiff(control_time, current_aligned)) <= Tolerance
\* "if time_diff < 30"
WithinTolerance(control_time, current_aligned) ==
    Abs(TimeDiff(control_time, current_aligned)) < Tolerance

\* What lines 219-220 do with a truthy target_timestamp: "ok", or the
\* exception raised.  A value that is no string has no .replace method.
ParseTimestamp(ts) ==
    IF ts.kind = "number" THEN "AttributeError"
    ELSE IF FromIsoFails(ReplaceZ(ts)) THEN "ValueError"
    ELSE "ok"
\* except (ValueError, TypeError) of line 221
ParseHandler(exc) == exc \in {"ValueError", "TypeError"}
\* The subclasses of Exception the model raises.
Exceptions ==
    {"AttributeError", "ValueError", "TypeError", "UpdateFailed",
     "HomeAssistantError", "ClientError"}
\* A handler that catches the parse errors only.
CycleHandlerNarrow(exc) == exc \in {"ValueError", "TypeError"}
\* except Exception of line 270
CycleHandler(exc) == exc \in Exceptions
\* except Exception of lines 328, 346 and 615
ApplyHandler(exc) == exc \in Exceptions
\* A handler that catches nothing.
FeedbackHandlerNone(exc) == FALSE
\* except Exception of line 674
FeedbackHandler(exc) == exc \in Exceptions

\* The for loop from entry i on: [found, raised, idx], raised the exception
\* that left the loop ("" when none did).
\*   line 214: a falsy timestamp (None, "") is skipped;
\*   line 221: an exception of the parse that the handler catches skips the
\*             entry, any other leaves the loop;
\*   line 228: the first entry within the tolerance is taken.
RECURSIVE MatchFrom(_, _, _)
MatchFrom(controls, i, current_aligned) ==
    IF i > Len(controls)
    THEN [found |-> FALSE, raised |-> "", idx |-> 0]
    ELSE LET ts  == controls[i].target_timestamp
             exc == ParseTimestamp(ts)
         IN
         IF ts.kind \in {"missing", "empty"}
         THEN MatchFrom(controls, i + 1, current_aligned)
         ELSE IF exc # "ok"
         THEN IF ParseHandler(exc)
              THEN MatchFrom(controls, i + 1, current_aligned)
              ELSE [found |-> FALSE, raised |-> exc, idx |-> i]
         ELSE IF WithinTolerance(Local(FromIso(ReplaceZ(ts))), current_aligned)
         THEN [found |-> TRUE, raised |-> "", idx |-> i]
         ELSE MatchFrom(controls, i + 1, current_aligned)

\* The synchronous stretch of _execute_control between the refresh and the
\* dispatch (lines 172-249) on coordinator data d with "now" = now:
\* [outcome, exc, target]; outcome "raise" when exception exc left it.
Decision(outcome, exc, target) ==
    [outcome |-> outcome, exc |-> exc, target |-> target]
\* Decide without the automatic_control_enabled test of line 175.
DecideIgnoringFlag(d, now) ==
    IF d.control_plan = "None" THEN Decision("no_plan", "", NoControl)
    ELSE IF d.controls = <<>> THEN Decision("empty_plan", "", NoControl)
    ELSE LET m == MatchFrom(d.controls, 1, CurrentAligned(now)) IN
         IF m.raised # "" THEN Decision("raise", m.raised, NoControl)
         ELSE IF ~m.found THEN Decision("no_match", "", NoControl)
         ELSE IF config.dry_run_mode
         THEN Decision("demo", "", d.controls[m.idx])
         ELSE Decision("apply", "", d.controls[m.idx])
\* Decide without the demo-mode test of line 245.
DecideWithoutDemoCheck(d, now) ==
    IF d.present /\ d.control = "None"
    THEN Decision("raise", "AttributeError", NoControl)
    ELSE IF ~(d.present /\ d.control = "on")
    THEN Decision("disabled", "", NoControl)
    ELSE IF d.control_plan = "None" THEN Decision("no_plan", "", NoControl)
    ELSE IF d.controls = <<>> THEN Decision("empty_plan", "", NoControl)
    ELSE LET m == MatchFrom(d.controls, 1, CurrentAligned(now)) IN
         IF m.raised # "" THEN Decision("raise", m.raised, NoControl)
         ELSE IF ~m.found THEN Decision("no_match", "", NoControl)
         ELSE Decision("apply", "", d.controls[m.idx])
\* Decide taking a control status without the key for automatic control on.
DecideDefaultingToEnabled(d, now) ==
    IF d.present /\ d.control = "None"
    THEN Decision("raise", "AttributeError", NoControl)
    ELSE IF ~(d.present /\ d.control \in {"on", "no_key"})
    THEN Decision("disabled", "", NoControl)
    ELSE IF d.control_plan = "None" THEN Decision("no_plan", "", NoControl)
    ELSE IF d.controls = <<>> THEN Decision("empty_plan", "", NoControl)
    ELSE LET m == MatchFrom(d.controls, 1, CurrentAligned(now)) IN
         IF m.raised # "" THEN Decision("raise", m.raised, NoControl)
         ELSE IF ~m.found THEN Decision("no_match", "", NoControl)
         ELSE IF config.dry_run_mode
         THEN Decision("demo", "", d.controls[m.idx])
         ELSE Decision("apply", "", d.controls[m.idx])
Decide(d, now) ==
    IF d.present /\ d.control = "None"
    THEN Decision("raise", "AttributeError", NoControl)     \* None.get, line 175
    ELSE IF ~(d.present /\ d.control = "on")
    THEN Decision("disabled", "", NoControl)                \* line 175
    ELSE IF d.control_plan = "None"
    THEN Decision("no_plan", "", NoControl)                 \* line 191
    ELSE IF d.controls = <<>>
    THEN Decision("empty_plan", "", NoControl)              \* line 197
    ELSE LET m == MatchFrom(d.controls, 1, CurrentAligned(now)) IN
         IF m.raised # ""
         THEN Decision("raise", m.raised, NoControl)        \* line 219
         ELSE IF ~m.found
         THEN Decision("no_match", "", NoControl)           \* line 233
         ELSE IF config.dry_run_mode
         THEN Decision("demo", "", d.controls[m.idx])       \* line 245
         ELSE Decision("apply", "", d.controls[m.idx])      \* line 255

----------------------------------------------------------------------------
(* DeviceDispatcher: _apply_control, lines 273-617.                        *)
(*                                                                         *)
(* A device call is [domain, service, entity, option, value]; value is the *)
(* number written (watts or, on the generic profile, watts standing for    *)
(* the kW written), -1 when the call writes no number.                     *)

Call(domain, service, entity, option, value) ==
    [domain |-> domain, service |-> service, entity |-> entity,
     option |-> option, value |-> value]
\* await asyncio.sleep(5)
Sleep == Call("asyncio", "sleep", "", "", 5)
IsDeviceCall(c) == c.domain # "asyncio"

SelectOption(entity, option) == Call("select", "select_option", entity, option, -1)
SetValue(entity, value) == Call("number", "set_value", entity, "", value)
SwitchTurn(service) == Call("switch", service, "grid_charge_switch", "", -1)
\* huawei_solar.forcible_charge with "power": str(power_watts), "duration": 16
ForcibleCharge(power_watts) ==
    Call("huawei_solar", "forcible_charge", "ha_device_id", "duration=16", power_watts)
StopForcibleCharge ==
    Call("huawei_solar", "stop_forcible_charge",
         IF config.ha_device_id THEN "ha_device_id" ELSE "", "", -1)

\* is_huawei / is_solaredge of lines 293-296.
is_huawei == config.grid_charge_switch
is_solaredge == config.solaredge_command_mode

\* round(abs(power_kw), 2), in watts: the nearest multiple of 10 W.  (A
\* setpoint half-way between two multiples is not drawn as an input.)
Round2(power) == ((Abs(power) + 5) \div 10) * 10
\* The multiples of 10 W up to 5 kW whose kW value times 1000 falls just
\* below the integer in binary floating point (2.01 * 1000 is
\* 2009.9999999999998), so that int() gives one watt less.
FloatShort == {2010, 2030, 4020, 4060}
\* int(round(abs(power_kw), 2) * 1000) of lines 307 and 372.
PowerWatts(power) ==
    IF Round2(power) \in FloatShort THEN Round2(power) - 1 ELSE Round2(power)
\* round(max(0, min(50, power_kw)), 2), in watts.
GenericPower(power) == ((Max(0, Min(GenericClampW, power)) + 5) \div 10) * 10
\* int(self.battery_max_power * 1000)
MaxPowerWatts == config.battery_max_power

OptSeq(cond, c) == IF cond THEN <<c>> ELSE <<>>

\* The device calls and sleeps of each branch of _apply_control, in order.
\* lines 314-364
HuaweiForceCharge(power) ==
    << ForcibleCharge(PowerWatts(power)), Sleep,
       SelectOption("battery_mode_select", "fixed_charge_discharge"), Sleep,
       SwitchTurn("turn_on") >>
\* Huawei self_use with the stop command first.
HuaweiSelfUseStopFirst ==
    << StopForcibleCharge, Sleep, SwitchTurn("turn_off"), Sleep,
       SelectOption("battery_mode_select", "maximise_self_consumption") >>
\* Huawei self_use without the switch turn_off.
HuaweiSelfUseWithoutSwitch ==
    << SelectOption("battery_mode_select", "maximise_self_consumption"), Sleep,
       StopForcibleCharge >>
\* lines 427-469
HuaweiSelfUse ==
    << SwitchTurn("turn_off"), Sleep,
       SelectOption("battery_mode_select", "maximise_self_consumption"), Sleep,
       StopForcibleCharge >>
\* Huawei backup ending with the mode select.
HuaweiBackupWithoutStop ==
    << SwitchTurn("turn_off"), Sleep,
       SelectOption("battery_mode_select", "maximise_self_consumption") >>
\* lines 522-561
HuaweiBackup ==
    << SwitchTurn("turn_off"), Sleep,
       SelectOption("battery_mode_select", "maximise_self_consumption"), Sleep,
       StopForcibleCharge >>
\* SolarEdge force_charge that also opens the discharge limit.
SolarEdgeForceChargeWithDischarge(power) ==
    OptSeq(config.battery_charge_power,
           SetValue("battery_charge_power", PowerWatts(power)))
    \o OptSeq(config.battery_discharge_power,
              SetValue("battery_discharge_power", MaxPowerWatts))
    \o << SelectOption("solaredge_command_mode",
                       "Charge from Solar Power and Grid") >>
\* lines 370-388
SolarEdgeForceCharge(power) ==
    OptSeq(config.battery_charge_power,
           SetValue("battery_charge_power", PowerWatts(power)))
    \o << SelectOption("solaredge_command_mode",
                       "Charge from Solar Power and Grid") >>
\* lines 475-501
SolarEdgeSelfUse ==
    OptSeq(config.battery_charge_power,
           SetValue("battery_charge_power", MaxPowerWatts))
    \o OptSeq(config.battery_discharge_power,
              SetValue("battery_discharge_power", MaxPowerWatts))
    \o << SelectOption("solaredge_command_mode", "Maximize Self Consumption") >>
\* SolarEdge backup writing the command mode before the limits.
SolarEdgeBackupModeFirst ==
    << SelectOption("solaredge_command_mode", "Maximize Self Consumption") >>
    \o OptSeq(config.battery_charge_power,
              SetValue("battery_charge_power", MaxPowerWatts))
    \o OptSeq(config.battery_discharge_power,
              SetValue("battery_discharge_power", 0))
\* lines 567-593
SolarEdgeBackup ==
    OptSeq(config.battery_charge_power,
           SetValue("battery_charge_power", MaxPowerWatts))
    \o OptSeq(config.battery_discharge_power,
              SetValue("battery_discharge_power", 0))
    \o << SelectOption("solaredge_command_mode", "Maximize Self Consumption") >>
\* lines 394-420; mode_force_charge is "Force Charge" unless configured.
GenericForceCharge(power) ==
    << SelectOption("battery_mode_select", "Force Charge") >>
    \o OptSeq(config.battery_charge_power,
              SetValue("battery_charge_power", GenericPower(power)))
\* Generic self_use that also writes the charge power.
GenericSelfUseWithNumber ==
    << SelectOption("battery_mode_select", "Self Use"),
       SetValue("battery_charge_power", 0) >>
\* lines 505-515
GenericSelfUse == << SelectOption("battery_mode_select", "Self Use") >>
\* lines 597-607
GenericBackup == << SelectOption("battery_mode_select", "Backup") >>

Run(steps) == [ret |-> "run", steps |-> steps]
\* _apply_control treating an unknown mode as self_use.
ApplyStepsDefaultingToSelfUse(mode, power) ==
    CASE mode = "force_charge" ->
           IF is_huawei THEN
               IF ~config.ha_device_id
               THEN [ret |-> "None", steps |-> <<>>]
               ELSE Run(HuaweiForceCharge(power))
           ELSE IF is_solaredge THEN Run(SolarEdgeForceCharge(power))
           ELSE Run(GenericForceCharge(power))
      [] mode = "backup" ->
           IF is_huawei THEN Run(HuaweiBackup)
           ELSE IF is_solaredge THEN Run(SolarEdgeBackup)
           ELSE Run(GenericBackup)
      [] OTHER ->
           IF is_huawei THEN Run(HuaweiSelfUse)
           ELSE IF is_solaredge THEN Run(SolarEdgeSelfUse)
           ELSE Run(GenericSelfUse)
\* The calls _apply_control(mode, power) would issue if none failed, in
\* order, and what it returns without issuing any: ret = "run" (go through
\* the steps), "None" (the bare return of line 312) or "False" (line 611).
ApplySteps(mode, power) ==
    CASE mode = "force_charge" ->
           IF is_huawei THEN
               IF ~config.ha_device_id
               THEN [ret |-> "None", steps |-> <<>>]
               ELSE Run(HuaweiForceCharge(power))
           ELSE IF is_solaredge THEN Run(SolarEdgeForceCharge(power))
           ELSE Run(GenericForceCharge(power))
      [] mode = "self_use" ->
           IF is_huawei THEN Run(HuaweiSelfUse)
           ELSE IF is_solaredge THEN Run(SolarEdgeSelfUse)
           ELSE Run(GenericSelfUse)
      [] mode = "backup" ->
           IF is_huawei THEN Run(HuaweiBackup)
           ELSE IF is_solaredge THEN Run(SolarEdgeBackup)
           ELSE Run(GenericBackup)
      [] OTHER -> [ret |-> "False", steps |-> <<>>]

----------------------------------------------------------------------------
(* FeedbackReporter: _send_execution_feedback, lines 619-675.              *)
(*                                                                         *)
(* The state of a sensor is None (hass.states.get finds no entity) or a    *)
(* State whose .state is a string: a text, or the decimal writing of a     *)
(* number.  Numbers are counted in ten-thousandths (85.5 is 855000), in    *)
(* the sensor states and in the feedback body alike.                       *)

NoSensor == [kind |-> "None", text |-> "", value |-> 0]
Text(s)  == [kind |-> "text", text |-> s, value |-> 0]
Num(v)   == [kind |-> "number", text |-> "", value |-> v]

\* A JSON value of the feedback body: null or a number.
JsonNull == [null |-> TRUE, value |-> 0]
Json(v)  == [null |-> FALSE, value |-> v]

\* float(sensor.state) raises ValueError: the string is no number.
FloatFails(sensor) == sensor.kind = "text"
\* The reading with the two divisors exchanged.
ReadSensorDividingByThousand(sensor, divisor) ==
    IF sensor.kind = "None" THEN JsonNull
    ELSE IF sensor.kind = "text" /\ sensor.text \in {"unknown", "unavailable"}
    THEN JsonNull
    ELSE IF FloatFails(sensor) THEN JsonNull
    ELSE Json(sensor.value \div (IF divisor = 100 THEN 1000 ELSE 100))
\* Lines 641-646 and 649-654: None unless the sensor exists, its state is
\* neither "unknown" nor "unavailable" and float() takes it; then the number
\* divided by divisor.
ReadSensor(sensor, divisor) ==
    IF sensor.kind = "None" THEN JsonNull
    ELSE IF sensor.kind = "text" /\ sensor.text \in {"unknown", "unavailable"}
    THEN JsonNull
    ELSE IF FloatFails(sensor) THEN JsonNull                \* except ValueError
    ELSE Json(sensor.value \div divisor)

\* datetime.isoformat() of the local datetime of instant t: its wall-clock
\* reading followed by its offset from UTC.
isoformat(t) == [wall |-> Local(t).wall, offset |-> UtcOffset(t)]
\* A feedback body whose target_timestamp is written anew, in the form the
\* matcher parses.
FeedbackDataReformatted(target_timestamp, executed_at) ==
    [target_timestamp |-> ReplaceZ(target_timestamp),
     executed_at |-> isoformat(executed_at),
     actual_power |-> ReadSensor(states.power, 1000),
     actual_soc |-> ReadSensor(states.soc, 100)]
\* feedback_data of lines 657-662; executed_at is the instant of "now".
FeedbackData(target_timestamp, executed_at) ==
    [target_timestamp |-> target_timestamp,
     executed_at |-> isoformat(executed_at),
     actual_power |-> ReadSensor(states.power, 1000),
     actual_soc |-> ReadSensor(states.soc, 100)]
\* No feedback body built.
NoBody ==
    [target_timestamp |-> [kind |-> "missing", wall |-> 0, tz |-> ""],
     executed_at |-> [wall |-> NoTime, offset |-> 0],
     actual_power |-> JsonNull, actual_soc |-> JsonNull]

----------------------------------------------------------------------------
(* The manual_override service: handle_manual_override (__init__.py lines  *)
(* 236-254) and async_manual_override (coordinator.py lines 234-260).      *)

\* None for an optional field of the service call.
NoValue == -1
\* call.data: action, power_kw (in watts) and duration_minutes.
Request(action, power_kw, duration_minutes) ==
    [action |-> action, power_kw |-> power_kw,
     duration_minutes |-> duration_minutes]
NoRequest == Request("", NoValue, NoValue)
\* The schema of __init__.py lines 260-268: power_kw in [0, 3.0] and
\* duration_minutes in [1, 1440], both optional.
SchemaValid(req) ==
    /\ req.action # ""
    /\ req.power_kw = NoValue \/ (0 <= req.power_kw /\ req.power_kw <= 3000)
    /\ req.duration_minutes = NoValue
          \/ (1 <= req.duration_minutes /\ req.duration_minutes <= 1440)
\* The attributes of the coordinator object the integration uses: what
\* IntuiThermCoordinator defines and what it inherits.
CoordinatorAttributes ==
    {"data", "async_request_refresh", "async_config_entry_first_refresh",
     "_async_update_data", "_fetch_json", "_post_json", "async_manual_override",
     "async_enable_auto_control", "async_disable_auto_control",
     "_register_sensors", "_send_sensor_readings",
     "_backfill_historic_data_background", "_backfill_historic_data"}
\* payload of async_manual_override (lines 248-252): the action, and each
\* optional field that is not None (NoValue stands for an absent key).
OverridePayload(req) ==
    Request(req.action, req.power_kw, req.duration_minutes)
\* What a service call left behind: its call.data, the payload posted to
\* ENDPOINT_CONTROL_OVERRIDE (NoRequest when none was) and the exception
\* that left the handler ("" when none did).
Override(request, posted, raised) ==
    [request |-> request, posted |-> posted, raised |-> raised]
NoOverride == Override(NoRequest, NoRequest, "")
\* The handler on call.data = req: line 244 looks up
\* coordinator.manual_override and awaits the call.
ManualOverride(req) ==
    IF "manual_override" \in CoordinatorAttributes
    THEN Override(req, OverridePayload(req), "")
    ELSE Override(req, NoRequest, "AttributeError")

----------------------------------------------------------------------------
(* Inputs.                                                                 *)

\* 14:00:00 UTC of the day the model runs in.
Epoch == 14 * Hour
\* Instants at which the integration is set up: 13:52:00 and 14:07:12.
CoreStarts == {Epoch - 480}
MatchStarts == {Epoch + 432}
\* The clock stops here.
Horizon == Epoch + MaxSlots * CONTROL_INTERVAL + 300
\* The boundary the plans of the matcher inputs are written around: 14:15:00.
Slot == Epoch + CONTROL_INTERVAL

Cfg(grid, dev, se, chg, dis, dry, off) ==
    [grid_charge_switch |-> grid, ha_device_id |-> dev,
     solaredge_command_mode |-> se, battery_charge_power |-> chg,
     battery_discharge_power |-> dis, dry_run_mode |-> dry,
     battery_max_power |-> 3000, utc_offset |-> off, dst_end |-> NoTime]
Generic(dry, off)   == Cfg(FALSE, FALSE, FALSE, TRUE, FALSE, dry, off)
Huawei(dev, dry)    == Cfg(TRUE, dev, FALSE, FALSE, FALSE, dry, 0)
SolarEdge(dry)      == Cfg(FALSE, FALSE, TRUE, TRUE, TRUE, dry, 0)

\* Every device profile, with and without dry-run.
CoreConfigs ==
    UNION {{Generic(dry, 0), Huawei(TRUE, dry), Huawei(FALSE, dry), SolarEdge(dry)} :
           dry \in BOOLEAN}
\* The generic profile in two time zones, with and without dry-run.
MatchConfigs == {Generic(dry, off) : dry \in BOOLEAN, off \in {0, Hour}}

\* 15:00:00 UTC: the instant the summer time of the zone with summer time
\* ends (03:00 summer time becomes 02:00 standard time where the standard
\* offset is one hour).
DstEnd == Epoch + Hour
SummerTime(c) == [c EXCEPT !.dst_end = DstEnd]
TimeConfigs ==
    {Generic(FALSE, 0), Generic(FALSE, Hour), SummerTime(Generic(FALSE, Hour)),
     SummerTime(Generic(TRUE, Hour))}
\* 14:45:00 UTC, the last boundary before DstEnd, and the set-up times
\* before it.
LastSlot == DstEnd - CONTROL_INTERVAL
TimeStarts == {LastSlot - 480, LastSlot - 299, LastSlot - 1}
TimeHorizon == LastSlot + MaxSlots * CONTROL_INTERVAL + 300

IsoZ(t) == Ts("iso", t, "Z")
\* A plan with one entry per boundary of the model's time span.
PlanFor(action, power) ==
    << Control(IsoZ(Epoch), action, power),
       Control(IsoZ(Epoch + CONTROL_INTERVAL), action, power) >>
CoreActions == {"force_charge", "self_use", "backup", "idle"}
CorePlans == {PlanFor(a, 1800) : a \in CoreActions}
\* What a refresh may leave in coordinator.data.
CoreData ==
    {NoData, Data("on", "None", <<>>), Data("on", "dict", <<>>),
     Data("None", "dict", PlanFor("self_use", 1800)),
     Data("no_key", "dict", PlanFor("self_use", 1800)),
     Data("on", "dict", <<Control(NumberTs, "self_use", 0)>>)}
    \cup {Data(c, "dict", pl) : c \in {"on", "off"}, pl \in CorePlans}

\* Plan entries around the 14:15:00 boundary: timestamps that are missing,
\* empty, no string, no date, and dates 30, 29, 0 seconds before and 29, 30,
\* 45 seconds after the boundary, one of them written with a +01:00 offset.
MatchEntries ==
    { Control(MissingTs, "self_use", 0), Control(EmptyTs, "self_use", 0),
      Control(NumberTs, "self_use", 0), Control(GarbageTs, "self_use", 0),
      Control(IsoZ(Slot - 30), "self_use", 0),
      Control(IsoZ(Slot - 29), "force_charge", 1800),
      Control(IsoZ(Slot), "force_charge", 2500),
      Control(Ts("iso", Slot + Hour, "+01:00"), "self_use", 0),
      Control(IsoZ(Slot + 29), "backup", 0),
      Control(IsoZ(Slot + 30), "backup", 0),
      Control(IsoZ(Slot + 45), "force_charge", 1800) }
RECURSIVE SeqsUpTo(_, _)
SeqsUpTo(S, n) ==
    IF n = 0 THEN {<<>>}
    ELSE LET shorter == SeqsUpTo(S, n - 1)
         IN  shorter \cup {Append(q, e) : q \in shorter, e \in S}
MatchData == {Data("on", "dict", pl) : pl \in SeqsUpTo(MatchEntries, MaxPlanLen)}
\* Plans with entries for the boundaries around DstEnd and for the same
\* wall-clock readings one hour later.
TimeEntries ==
    { Control(IsoZ(LastSlot), "self_use", 0),
      Control(IsoZ(LastSlot + Hour), "force_charge", 1800),
      Control(IsoZ(DstEnd), "backup", 0),
      Control(Ts("iso", DstEnd + 2 * Hour, "+01:00"), "force_charge", 2500) }
TimeData == {Data("on", "dict", pl) : pl \in SeqsUpTo(TimeEntries, MaxPlanLen)}

\* The profiles the executor is started on (__init__.py line 145: a mode
\* select, and a charge-power entity unless the profile is Huawei), without
\* dry-run; the discharge-power entity is optional.
WithoutDischarge(c) == [c EXCEPT !.battery_discharge_power = FALSE]
WithMax(c, watts) == [c EXCEPT !.battery_max_power = watts]
DispatchConfigs ==
    {Generic(FALSE, 0), Huawei(TRUE, FALSE), Huawei(FALSE, FALSE),
     SolarEdge(FALSE), WithMax(SolarEdge(FALSE), 5000),
     WithoutDischarge(SolarEdge(FALSE))}
\* power_setpoint values of the plan, in watts: negative, zero, more than two
\* decimals of a kW, the 1.8 kW of Scenario D, 2.01 kW, the default profile
\* maximum, above it, and above the 50 kW of the generic clamp.
DispatchPowers == {-1200, 0, 574, 1800, 2010, 3000, 4500, 60000}
DispatchData ==
    {Data("on", "dict", <<Control(IsoZ(b), a, w)>>) :
        b \in {Epoch, Slot}, a \in CoreActions, w \in DispatchPowers}

\* sensor.battery_soc_2 at 85.5 % and sensor.battery_power at -1200 W.
CoreStates == [soc |-> Num(855000), power |-> Num(-12000000)]
\* States of a sensor: no entity, "unknown", "unavailable", a text that is
\* no number, the empty string, and the numbers 0, 85.5 and -1200.
SensorStates ==
    {NoSensor, Text("unknown"), Text("unavailable"), Text("charging"), Text(""),
     Num(0), Num(855000), Num(-12000000)}
FeedbackStates == [soc : SensorStates, power : SensorStates]
FeedbackConfigs == {Generic(FALSE, 0)}
\* One self_use entry for 14:00.
FeedbackPlans == {Data("on", "dict", <<Control(IsoZ(Epoch), "self_use", 0)>>)}

\* Service calls the schema lets through.
OverrideRequests ==
    {Request(a, w, m) : a \in {"force_charge", "self_use"},
                        w \in {NoValue, 0, 1500, 3000}, m \in {NoValue, 1, 60}}
ServiceConfigs == {Generic(FALSE, 0), Huawei(TRUE, FALSE)}
ServiceData == {Data(c, "dict", PlanFor("force_charge", 1800)) : c \in {"on", "off"}}

----------------------------------------------------------------------------
(* ExecutorLoop.                                                           *)

\* The task of line 155 as the timer fire creates it; fired is the time of
\* that fire.
NewTask ==
    [pc |-> "spawned", fired |-> clock, now |-> NoTime, refreshed |-> "",
     outcome |-> "", exc |-> "", escaped |-> FALSE, seen |-> NoData, target |-> NoControl,
     applied |-> 0, todo |-> <<>>, calls |-> <<>>, result |-> "",
     feedback |-> "", body |-> NoBody]
Live(q) == SelectSeq(q, LAMBDA t : t.pc # "done")

\* __init__ (lines 77-81), with the configuration, the coordinator data of
\* the first refresh, the time of the set-up and the sensor states drawn from
\* Configs, S, Starts, Sensors; no manual_override has been called.
InitExecutor(Configs, S, Starts, Sensors) ==
    /\ enabled = FALSE
    /\ last_execution = NoTime
    /\ next_execution = NoTime
    /\ cancel_timer = NoTime
    /\ timers = {}
    /\ tasks = <<>>
    /\ config \in Configs
    /\ data \in S
    /\ clock \in Starts
    /\ states \in Sensors
    /\ override = NoOverride
\* The same with the battery at 85.5 % and charging with 1200 W.
InitWith(Configs, S, Starts) == InitExecutor(Configs, S, Starts, {CoreStates})

\* _schedule_next_execution (lines 133-146): the timers left pending.
ScheduleTimers == (timers \ {cancel_timer}) \cup {_get_next_aligned_time(clock)}

\* start() without the test of line 92.
startWithoutGuard ==
    /\ enabled' = TRUE
    /\ next_execution' = _get_next_aligned_time(clock)
    /\ cancel_timer' = _get_next_aligned_time(clock)
    /\ timers' = ScheduleTimers
    /\ UNCHANGED <<last_execution, config, data, clock, tasks, states,
                   override>>
\* start() (lines 90-106)
start ==
    IF enabled
    THEN UNCHANGED vars
    ELSE /\ enabled' = TRUE
         /\ next_execution' = _get_next_aligned_time(clock)
         /\ cancel_timer' = _get_next_aligned_time(clock)
         /\ timers' = ScheduleTimers
         /\ UNCHANGED <<last_execution, config, data, clock, tasks, states,
                        override>>

\* stop() dropping the handle without calling it.
stopWithoutCancel ==
    /\ timers' = timers
    /\ cancel_timer' = NoTime
    /\ enabled' = FALSE
    /\ UNCHANGED <<last_execution, next_execution, config, data, clock, tasks,
                   states, override>>
\* stop() (lines 108-115)
stop ==
    /\ timers' = timers \ {cancel_timer}
    /\ cancel_timer' = NoTime
    /\ enabled' = FALSE
    /\ UNCHANGED <<last_execution, next_execution, config, data, clock, tasks,
                   states, override>>

\* Time passes; a pending timer fires as soon as its instant is reached, so
\* the clock does not pass it.
Tick(horizon) ==
    /\ \A T \in timers : clock < T
    /\ clock < horizon
    /\ clock' = Min(Min(clock + 300, horizon),
                    IF timers = {} THEN horizon
                    ELSE CHOOSE T \in timers : \A U \in timers : T <= U)
    /\ UNCHANGED <<enabled, last_execution, next_execution, cancel_timer,
                   config, data, timers, tasks,
                   states, override>>

\* The callback creating the task without arming the next timer.
CallbackWithoutRearm(limit) ==
    \E T \in timers :
        /\ clock >= T
        /\ Len(Live(tasks)) < limit
        /\ timers' = timers \ {T}
        /\ cancel_timer' = NoTime
        /\ tasks' = Append(Live(tasks), NewTask)
        /\ UNCHANGED <<enabled, last_execution, next_execution, config, data,
                       clock,
                       states, override>>

\* The callback arming the next timer while the previous one stays pending.
CallbackKeepingFiredTimer(limit) ==
    \E T \in timers :
        /\ clock >= T
        /\ Len(Live(tasks)) < limit
        /\ next_execution' = _get_next_aligned_time(clock)
        /\ cancel_timer' = _get_next_aligned_time(clock)
        /\ timers' = timers \cup {_get_next_aligned_time(clock)}
        /\ tasks' = Append(Live(tasks), NewTask)
        /\ UNCHANGED <<enabled, last_execution, config, data, clock, states,
                       override>>
\* The host fires timer T: _execute_control_callback (lines 148-155) re-arms
\* and then creates the task of the cycle.  Finished tasks are forgotten.
_execute_control_callback(limit) ==
    \E T \in timers :
        /\ clock >= T
        /\ Len(Live(tasks)) < limit
        /\ next_execution' = _get_next_aligned_time(clock)
        /\ cancel_timer' = _get_next_aligned_time(clock)
        /\ timers' = ((timers \ {T}) \ {cancel_timer})
                        \cup {_get_next_aligned_time(clock)}
        /\ tasks' = Append(Live(tasks), NewTask)
        /\ UNCHANGED <<enabled, last_execution, config, data, clock, states,
                       override>>

\* tasks with task i replaced by t.
SetTask(i, t) == [tasks EXCEPT ![i] = t]

\* A cycle that begins without recording the time of its start.
CycleBeginWithoutRecord(i) ==
    /\ i \in DOMAIN tasks
    /\ tasks[i].pc = "spawned"
    /\ IF ~enabled
       THEN /\ tasks' = SetTask(i, [tasks[i] EXCEPT !.pc = "done",
                                                    !.outcome = "stopped"])
            /\ UNCHANGED next_execution
       ELSE /\ tasks' = SetTask(i, [tasks[i] EXCEPT !.pc = "refresh",
                                                    !.now = clock])
            /\ next_execution' = _get_next_aligned_time(clock)
    /\ UNCHANGED <<enabled, last_execution, cancel_timer, config, data, timers,
                   clock, states, override>>
\* A cycle that sets next_execution to fifteen minutes after its start.
CycleBeginUnaligned(i) ==
    /\ i \in DOMAIN tasks
    /\ tasks[i].pc = "spawned"
    /\ IF ~enabled
       THEN /\ tasks' = SetTask(i, [tasks[i] EXCEPT !.pc = "done",
                                                    !.outcome = "stopped"])
            /\ UNCHANGED <<last_execution, next_execution>>
       ELSE /\ tasks' = SetTask(i, [tasks[i] EXCEPT !.pc = "refresh",
                                                    !.now = clock])
            /\ last_execution' = clock
            /\ next_execution' = clock + CONTROL_INTERVAL
    /\ UNCHANGED <<enabled, cancel_timer, config, data, timers, clock, states,
                   override>>
\* A cycle that begins without the test of line 159.
CycleBeginIgnoringEnabled(i) ==
    /\ i \in DOMAIN tasks
    /\ tasks[i].pc = "spawned"
    /\ tasks' = SetTask(i, [tasks[i] EXCEPT !.pc = "refresh", !.now = clock])
    /\ last_execution' = clock
    /\ next_execution' = _get_next_aligned_time(clock)
    /\ UNCHANGED <<enabled, cancel_timer, config, data, timers, clock, states,
                   override>>
\* Task i starts running _execute_control (lines 157-164), up to the await of
\* the refresh.
CycleBegin(i) ==
    /\ i \in DOMAIN tasks
    /\ tasks[i].pc = "spawned"
    /\ IF ~enabled
       THEN /\ tasks' = SetTask(i, [tasks[i] EXCEPT !.pc = "done",
                                                    !.outcome = "stopped"])
            /\ UNCHANGED <<last_execution, next_execution>>
       ELSE /\ tasks' = SetTask(i, [tasks[i] EXCEPT !.pc = "refresh",
                                                    !.now = clock])
            /\ last_execution' = clock
            /\ next_execution' = _get_next_aligned_time(clock)
    /\ UNCHANGED <<enabled, cancel_timer, config, data, timers, clock, states,
                   override>>

\* Exception exc reaches the try of _execute_control in task t: the handler
\* of line 270 logs it and the cycle ends, or it leaves the coroutine.
Raise(t, exc) ==
    [t EXCEPT !.pc = "done", !.exc = exc, !.escaped = ~CycleHandler(exc),
              !.todo = <<>>]

\* The task after the synchronous stretch of lines 172-255 on data d: either
\* finished, or inside _apply_control at its first await.
AfterDecide(t, d) ==
    LET dec == Decide(d, t.now)
        ap  == ApplySteps(dec.target.control_action, dec.target.power_setpoint)
        t1  == [t EXCEPT !.outcome = dec.outcome, !.seen = d,
                         !.target = dec.target]
    IN  IF dec.outcome = "raise" THEN Raise(t1, dec.exc)
        ELSE IF dec.outcome # "apply" THEN [t1 EXCEPT !.pc = "done"]
        ELSE IF ap.ret # "run"
        THEN [t1 EXCEPT !.pc = "done", !.applied = t.applied + 1,
                        !.result = ap.ret]                    \* lines 312, 611
        ELSE [t1 EXCEPT !.pc = "apply", !.applied = t.applied + 1,
                        !.todo = ap.steps]

\* Refresh with a handler that stops the executor when the refresh raises.
RefreshStoppingOnError(i, S) ==
    /\ i \in DOMAIN tasks
    /\ tasks[i].pc = "refresh"
    /\ \E r \in {"ok", "stale", "raise"} :
         \E d \in (IF r = "ok" THEN S ELSE {data}) :
            /\ data' = d
            /\ tasks' = SetTask(i,
                 IF r = "raise"
                 THEN Raise([tasks[i] EXCEPT !.outcome = "raise",
                                             !.refreshed = r], "UpdateFailed")
                 ELSE AfterDecide([tasks[i] EXCEPT !.refreshed = r], d))
            /\ enabled' = (enabled /\ r # "raise")
            /\ cancel_timer' = IF r = "raise" THEN NoTime ELSE cancel_timer
            /\ timers' = IF r = "raise" THEN timers \ {cancel_timer} ELSE timers
    /\ UNCHANGED <<last_execution, next_execution, config, clock, states,
                   override>>

\* Refresh with a cycle that ends when the refresh has failed.
RefreshAbortingWhenStale(i, S) ==
    /\ i \in DOMAIN tasks
    /\ tasks[i].pc = "refresh"
    /\ \E r \in {"ok", "stale", "raise"} :
         \E d \in (IF r = "ok" THEN S ELSE {data}) :
            /\ data' = d
            /\ tasks' = SetTask(i,
                 IF r = "raise"
                 THEN Raise([tasks[i] EXCEPT !.outcome = "raise",
                                             !.refreshed = r], "UpdateFailed")
                 ELSE IF r = "stale"
                 THEN [tasks[i] EXCEPT !.pc = "done", !.refreshed = r,
                                       !.outcome = "refresh_failed"]
                 ELSE AfterDecide([tasks[i] EXCEPT !.refreshed = r], d))
    /\ UNCHANGED <<enabled, last_execution, next_execution, cancel_timer,
                   config, timers, clock, states, override>>

\* await self.coordinator.async_request_refresh() returns to task i (line
\* 170) and the task runs on to its next await.  The refresh has
\*   "ok":    stored new data drawn from S;
\*   "stale": failed: _async_update_data raised UpdateFailed (coordinator.py
\*            lines 170-175), which the base class of the coordinator logs,
\*            leaving coordinator.data as it was;
\*   "raise": not returned at all: the await itself raised.
Refresh(i, S) ==
    /\ i \in DOMAIN tasks
    /\ tasks[i].pc = "refresh"
    /\ \E r \in {"ok", "stale", "raise"} :
         \E d \in (IF r = "ok" THEN S ELSE {data}) :
            /\ data' = d
            /\ tasks' = SetTask(i,
                 IF r = "raise"
                 THEN Raise([tasks[i] EXCEPT !.outcome = "raise",
                                             !.refreshed = r], "UpdateFailed")
                 ELSE AfterDecide([tasks[i] EXCEPT !.refreshed = r], d))
    /\ UNCHANGED <<enabled, last_execution, next_execution, cancel_timer,
                   config, timers, clock,
                   states, override>>

\* The task once the call or sleep at the head of todo has returned normally:
\* the next await, or "return True" and the feedback POST (lines 257-266).
StepDone(t) ==
    LET t1 == [t EXCEPT !.calls = Append(t.calls, Head(t.todo)),
                        !.todo = Tail(t.todo)]
    IN  IF t1.todo # <<>> THEN t1
        ELSE [t1 EXCEPT !.result = "True", !.pc = "feedback",
                        !.feedback = "posting",
                        !.body = FeedbackData(t.target.target_timestamp, t.now)]
\* A failed call after which the remaining steps are still issued.
StepFailedContinuing(t, exc) ==
    LET t1 == [t EXCEPT !.calls = Append(t.calls, Head(t.todo)),
                        !.todo = Tail(t.todo), !.result = "False"]
    IN  IF t1.todo # <<>> THEN t1 ELSE [t1 EXCEPT !.pc = "done"]
\* A failed call after which the feedback is posted all the same.
StepFailedThenFeedback(t, exc) ==
    [t EXCEPT !.calls = Append(t.calls, Head(t.todo)), !.todo = <<>>,
              !.result = "False", !.pc = "feedback", !.feedback = "posting"]
\* The task once the device call at the head of todo has raised exc: the
\* handlers of _apply_control return False (lines 328, 346, 615).
StepFailed(t, exc) ==
    LET t1 == [t EXCEPT !.calls = Append(t.calls, Head(t.todo))]
    IN  IF ApplyHandler(exc)
        THEN [t1 EXCEPT !.todo = <<>>, !.result = "False", !.pc = "done"]
        ELSE Raise(t1, exc)

\* A dispatch that is dropped once the executor has been stopped.
DeviceStepCheckingEnabled(i) ==
    /\ i \in DOMAIN tasks
    /\ tasks[i].pc = "apply"
    /\ \E ok \in BOOLEAN :
         /\ ~ok => IsDeviceCall(Head(tasks[i].todo))
         /\ tasks' = SetTask(i,
                IF ~enabled THEN [tasks[i] EXCEPT !.pc = "done", !.todo = <<>>]
                ELSE IF ok THEN StepDone(tasks[i])
                ELSE StepFailed(tasks[i], "HomeAssistantError"))
    /\ UNCHANGED <<enabled, last_execution, next_execution, cancel_timer,
                   config, data, timers, clock, states, override>>
\* Task i inside _apply_control: the call or sleep it awaits returns or raises.
DeviceStep(i) ==
    /\ i \in DOMAIN tasks
    /\ tasks[i].pc = "apply"
    /\ \E ok \in BOOLEAN :
         /\ ~ok => IsDeviceCall(Head(tasks[i].todo))
         /\ tasks' = SetTask(i, IF ok THEN StepDone(tasks[i])
                                ELSE StepFailed(tasks[i], "HomeAssistantError"))
    /\ UNCHANGED <<enabled, last_execution, next_execution, cancel_timer,
                   config, data, timers, clock,
                   states, override>>

\* The task once the feedback POST has raised exc (line 674).
FeedbackFailed(t, exc) ==
    IF FeedbackHandler(exc)
    THEN [t EXCEPT !.pc = "done", !.feedback = "raise"]
    ELSE Raise([t EXCEPT !.feedback = "raise"], exc)

\* The feedback POST of task i ends (lines 664-675): a response, an empty
\* response, or an exception.
FeedbackDone(i) ==
    /\ i \in DOMAIN tasks
    /\ tasks[i].pc = "feedback"
    /\ \E r \in {"ok", "empty", "raise"} :
         tasks' = SetTask(i,
            IF r = "raise" THEN FeedbackFailed(tasks[i], "ClientError")
            ELSE [tasks[i] EXCEPT !.pc = "done", !.feedback = r])
    /\ UNCHANGED <<enabled, last_execution, next_execution, cancel_timer,
                   config, data, timers, clock,
                   states, override>>

\* The host runs the manual_override service with call.data drawn from the
\* requests the schema lets through.
handle_manual_override ==
    /\ \E req \in {q \in OverrideRequests : SchemaValid(q)} :
          override' = ManualOverride(req)
    /\ UNCHANGED <<enabled, last_execution, next_execution, cancel_timer,
                   config, data, timers, clock, tasks, states>>

\* One step of the integration with at most limit cycles in flight, the
\* backend answering a refresh with data of S and time running up to
\* horizon; without stop() in Running.
Running(limit, S, horizon) ==
    \/ start
    \/ Tick(horizon)
    \/ _execute_control_callback(limit)
    \/ \E i \in 1..MaxTasks : CycleBegin(i)
    \/ \E i \in 1..MaxTasks : Refresh(i, S)
    \/ \E i \in 1..MaxTasks : DeviceStep(i)
    \/ \E i \in 1..MaxTasks : FeedbackDone(i)
NextWith(limit, S, horizon) == stop \/ Running(limit, S, horizon)

Init == InitWith(CoreConfigs, CoreData, CoreStarts)
Next == NextWith(MaxTasks, CoreData, Horizon)
Spec == Init /\ [][Next]_vars

\* The matcher on plans of every shape, one cycle at a time.
InitMatch == InitWith(MatchConfigs, {NoData}, MatchStarts)
NextMatch == NextWith(1, MatchData, Horizon)
SpecMatch == InitMatch /\ [][NextMatch]_vars

\* The executor started and never stopped, with the event loop running every
\* due timer and every ready task.
LiveConfigs == {Generic(FALSE, 0), Huawei(TRUE, FALSE)}
InitLive == InitWith(LiveConfigs, CoreData, CoreStarts)
NextLive == Running(MaxTasks, CoreData, Horizon)
Fairness ==
    /\ WF_vars(_execute_control_callback(MaxTasks))
    /\ \A i \in 1..MaxTasks :
          WF_vars(CycleBegin(i) \/ Refresh(i, CoreData) \/ DeviceStep(i)
                  \/ FeedbackDone(i))
SpecLive == InitLive /\ [][NextLive]_vars /\ Fairness

\* Every action on every profile with the powers of DispatchPowers, one
\* cycle at a time.
InitDispatch == InitWith(DispatchConfigs, {NoData}, CoreStarts)
NextDispatch == NextWith(1, DispatchData, Horizon)
SpecDispatch == InitDispatch /\ [][NextDispatch]_vars

\* The executor in the hour before the clocks are set back, in zones with
\* and without summer time, one cycle at a time.
InitTime == InitWith(TimeConfigs, {NoData}, TimeStarts)
NextTime == NextWith(1, TimeData, TimeHorizon)
SpecTime == InitTime /\ [][NextTime]_vars

\* A dispatch with the sensors in every state, one cycle at a time.
InitFeedback == InitExecutor(FeedbackConfigs, {NoData}, CoreStarts, FeedbackStates)
NextFeedback == NextWith(1, FeedbackPlans, Horizon)
SpecFeedback == InitFeedback /\ [][NextFeedback]_vars

\* The executor next to the manual_override service.
InitService == InitWith(ServiceConfigs, {NoData}, CoreStarts)
NextService == NextWith(1, ServiceData, Horizon) \/ handle_manual_override
SpecService == InitService /\ [][NextService]_vars

----------------------------------------------------------------------------
(* Properties.                                                             *)

TaskSet == {tasks[i] : i \in DOMAIN tasks}
\* The device calls task t has issued, in order.
DeviceCalls(t) == SelectSeq(t.calls, IsDeviceCall)
\* The 15-minute boundary at or before instant t, by arithmetic on instants.
SlotOf(t) == t - (t % CONTROL_INTERVAL)
\* The instant an ISO timestamp names: its wall-clock reading minus its
\* offset from UTC.
InstantOf(ts) == IF ts.tz = "+01:00" THEN ts.wall - Hour ELSE ts.wall
\* Entry e has a date less than 30 seconds from the boundary of instant t.
Near(e, t) ==
    /\ e.target_timestamp.kind = "iso"
    /\ InstantOf(e.target_timestamp) - SlotOf(t) < 30
    /\ SlotOf(t) - InstantOf(e.target_timestamp) < 30
\* The positions of the entries of the plan task t saw that are Near its now.
NearIdx(t) == {k \in DOMAIN t.seen.controls : Near(t.seen.controls[k], t.now)}
FirstNear(t) == CHOOSE k \in NearIdx(t) : \A j \in NearIdx(t) : k <= j
\* Task t has read the coordinator data and run through lines 172-249.
Decided(t) == t.outcome \notin {"", "stopped"} /\ t.exc # "UpdateFailed"
AutoOn(t) == t.seen.present /\ t.seen.control = "on"

\* C1: a cycle invokes _apply_control at most once, and only when the data it
\* read after the refresh has automatic_control_enabled = true; a cycle that
\* read anything else invokes no dispatcher and issues no device call,
\* whatever the plan holds.
C1_DispatchOnlyWhenEnabled ==
    \A t \in TaskSet :
        /\ t.applied <= 1
        /\ t.applied = 1 => AutoOn(t)
        /\ DeviceCalls(t) # <<>> => t.applied = 1
        /\ ~AutoOn(t) => t.applied = 0 /\ DeviceCalls(t) = <<>>
\* A finished cycle that read automatic_control_enabled = false together with
\* a plan holding a force_charge entry for its slot, outside dry-run.
C1_Witness ==
    /\ ~config.dry_run_mode
    /\ \E t \in TaskSet :
         /\ t.pc = "done" /\ t.outcome = "disabled"
         /\ t.seen.present /\ t.seen.control = "off"
         /\ \E k \in NearIdx(t) :
              t.seen.controls[k].control_action = "force_charge"

\* C2: with dry-run on, no cycle issues a device call, invokes the dispatcher
\* or posts feedback; a cycle that read automatic control enabled and a plan
\* with an entry for its slot still ends with that entry (action and power)
\* as its decision.
C2_DryRunNoWrites ==
    config.dry_run_mode =>
        \A t \in TaskSet :
            /\ DeviceCalls(t) = <<>>
            /\ t.applied = 0
            /\ t.feedback = ""
            /\ (t.pc = "done" /\ Decided(t) /\ t.exc = "" /\ AutoOn(t)
                /\ t.seen.control_plan = "dict" /\ NearIdx(t) # {})
               => /\ t.outcome = "demo"
                  /\ t.target = t.seen.controls[FirstNear(t)]
\* A dry-run cycle that decided force_charge at 1800 W and issued nothing.
C2_Witness ==
    /\ config.dry_run_mode
    /\ \E t \in TaskSet :
         /\ t.pc = "done" /\ t.outcome = "demo"
         /\ t.target.control_action = "force_charge"
         /\ t.target.power_setpoint = 1800
         /\ t.calls = <<>>

\* C3: _apply_control never raises and returns a boolean, for every mode,
\* profile and pattern of failing device calls.
C3_ReturnsBoolean ==
    \A t \in TaskSet :
        (t.applied = 1 /\ t.pc \in {"feedback", "done"})
            => ~t.escaped /\ t.result \in {"True", "False"}

\* A step in which a cycle ends in a failure: an exception caught at line
\* 270, a dispatch that returned failure, or a feedback POST that raised.
CycleFailedStep ==
    \E i \in DOMAIN tasks :
        /\ i \in DOMAIN tasks'
        /\ tasks[i].pc \notin {"spawned", "done"}
        /\ tasks'[i].pc = "done"
        /\ \/ tasks'[i].exc # ""
           \/ tasks'[i].result \in {"False", "None"}
           \/ tasks'[i].feedback = "raise"
\* C4: no exception raised in a cycle body (by the refresh, the data access,
\* the matching, the dispatch or the feedback) leaves _execute_control, and
\* the step in which the cycle fails leaves the executor enabled and its
\* timer armed as they were.
C4_ExceptionsContained ==
    /\ [](\A t \in TaskSet : ~t.escaped)
    /\ [][CycleFailedStep =>
            /\ enabled' = enabled
            /\ cancel_timer' = cancel_timer
            /\ timers' = timers]_vars
\* A cycle ended by the AttributeError of the matching loop while the
\* executor is enabled with its timer armed for a later instant.
C4_Witness ==
    /\ enabled /\ cancel_timer \in timers /\ cancel_timer > clock
    /\ \E t \in TaskSet :
         /\ t.pc = "done" /\ t.exc = "AttributeError" /\ AutoOn(t)
         /\ ~t.escaped

\* The step is a timer fire: the task list is the unfinished tasks followed
\* by a new task.
Spawned == tasks' = Append(Live(tasks), NewTask)
\* C5: the step of a timer fire arms the timer of the next boundary (later
\* than now, pending, and shown as next_execution) while the new cycle has
\* not taken a step; and no step of a cycle, however late and whatever its
\* outcome, changes the armed timer.
C5_RearmBeforeCycle ==
    [][ /\ Spawned =>
            /\ cancel_timer' = SlotOf(clock) + CONTROL_INTERVAL
            /\ cancel_timer' \in timers'
            /\ next_execution' = cancel_timer'
            /\ tasks'[Len(tasks')].pc = "spawned"
        /\ (tasks' # tasks /\ ~Spawned) =>
            /\ cancel_timer' = cancel_timer
            /\ timers' = timers ]_vars
\* A cycle task created by the 14:00 fire that has not begun, with the timer
\* already armed for 14:15.
C5_Witness ==
    /\ clock = Epoch
    /\ cancel_timer = Epoch + CONTROL_INTERVAL /\ cancel_timer \in timers
    /\ \E t \in TaskSet : t.pc = "spawned" /\ t.now = NoTime

\* The boundaries the clock of the model reaches.
Boundaries == {Epoch + k * CONTROL_INTERVAL : k \in 0..MaxSlots}
\* C6: an executor that is never stopped stays enabled whatever its cycles
\* do, and for every boundary its timer comes due at, a cycle eventually
\* starts (last_execution moves to that boundary or later).
C6_NeverStopsItself ==
    /\ [][enabled => enabled']_vars
    /\ \A b \in Boundaries :
         (enabled /\ cancel_timer = b /\ clock >= b)
            ~> (last_execution # NoTime /\ last_execution >= b)
\* The cycle of 14:15 has started while the cycle of 14:00 ended in an
\* exception.
C6_Witness ==
    /\ enabled
    /\ last_execution >= Epoch + CONTROL_INTERVAL
    /\ \E t \in TaskSet : t.pc = "done" /\ t.exc # "" /\ t.now < Epoch + CONTROL_INTERVAL
    /\ \E t \in TaskSet : t.pc # "spawned" /\ t.now >= Epoch + CONTROL_INTERVAL

\* C7: the entry a cycle selects is an entry of the plan it read whose instant
\* is less than 30 seconds from the boundary of its now; when the plan has
\* no such entry (one 30 s or 45 s away does not count) the cycle selects
\* nothing, invokes no dispatcher and issues no device call.
C7_MatchWithinTolerance ==
    \A t \in TaskSet :
        /\ t.outcome \in {"apply", "demo"} =>
              /\ \E k \in DOMAIN t.seen.controls : t.target = t.seen.controls[k]
              /\ Near(t.target, t.now)
        /\ (Decided(t) /\ NearIdx(t) = {}) =>
              /\ t.outcome \notin {"apply", "demo"}
              /\ t.applied = 0
              /\ DeviceCalls(t) = <<>>
\* C8: whenever the plan a cycle read holds an entry with a date within 30
\* seconds of its boundary, the cycle selects the first such entry in plan
\* order.
C8_FirstMatchWins ==
    \A t \in TaskSet :
        (Decided(t) /\ AutoOn(t) /\ NearIdx(t) # {}) =>
            /\ t.outcome \in {"apply", "demo"}
            /\ t.target = t.seen.controls[FirstNear(t)]

\* The timestamp is missing or is no date.
Unparsable(ts) == ts.kind \in {"missing", "empty", "number", "garbage"}
\* C10: an entry whose target_timestamp is missing or cannot be parsed does
\* not end the cycle: no exception leaves the matching loop, and when a
\* later entry of the plan matches, the cycle selects an entry and, outside
\* dry-run, dispatches it.
C10_BadTimestampSkipped ==
    \A t \in TaskSet :
        (Decided(t) /\ AutoOn(t)
         /\ \E k \in DOMAIN t.seen.controls :
               Unparsable(t.seen.controls[k].target_timestamp))
        => /\ t.exc = ""
           /\ (\E k, j \in DOMAIN t.seen.controls :
                  /\ k < j /\ j \in NearIdx(t)
                  /\ Unparsable(t.seen.controls[k].target_timestamp))
              => /\ t.outcome \in {"apply", "demo"}
                 /\ (~config.dry_run_mode => t.applied = 1)

\* Instants around DstEnd: every boundary from two hours before it to one
\* hour after it, and the instants 1 s, 59 s, 7.5 min and 14 min 59 s later.
TimeInstants ==
    {DstEnd + k * CONTROL_INTERVAL + d : k \in -8..4, d \in {0, 1, 59, 450, 899}}
\* The wall-clock hour count of a reading.
HourOf(wall) == wall \div Hour
\* C11: for every instant t, in zones with and without summer time:
\* next_aligned(t) is later than t and reads seconds 0 and minute 0, 15, 30 or
\* 45 on the local clock, with minute 0 of the next wall-clock hour when the
\* minute of t is 45..59; current_aligned(t) is on a 15-minute mark and
\* current_aligned(t) <= t < current_aligned(t) + 15 min.
C11_AlignedTimes ==
    \A t \in TimeInstants \cup {clock} :
        LET n  == _get_next_aligned_time(t)
            nw == Local(n).wall
            c  == CurrentAligned(t)
            ci == ToUtc(c.wall, c.fold)
        IN  /\ n > t
            /\ nw % 60 = 0
            /\ MinuteOf(nw) \in {0, 15, 30, 45}
            /\ MinuteOf(Local(t).wall) >= 45 =>
                  /\ MinuteOf(nw) = 0
                  /\ HourOf(nw) = HourOf(Local(t).wall) + 1
            /\ MinuteOf(Local(t).wall) < 45 =>
                  /\ HourOf(nw) = HourOf(Local(t).wall)
                  /\ MinuteOf(nw) > MinuteOf(Local(t).wall)
                  /\ MinuteOf(nw) <= MinuteOf(Local(t).wall) + 15
            /\ c.wall % CONTROL_INTERVAL = 0
            /\ ci <= t /\ t < ci + CONTROL_INTERVAL
\* In the zone with summer time, the wake of 14:45 UTC has armed the timer for
\* minute 0 of the next wall-clock hour, and a cycle begun at 14:45 has
\* matched on its current_aligned.
C11_Witness ==
    /\ config.dst_end # NoTime
    /\ enabled /\ clock >= LastSlot
    /\ cancel_timer > clock /\ MinuteOf(Local(cancel_timer).wall) = 0
    /\ \E t \in TaskSet : t.now >= LastSlot /\ t.outcome \in {"apply", "demo"}

\* C12: while the executor is running, next_execution is the smallest
\* 15-minute boundary that is >= now (the boundary of a wake that has run
\* counting as passed).
C12_NextExecutionSmallest ==
    enabled =>
        /\ next_execution % CONTROL_INTERVAL = 0
        /\ clock <= next_execution
        /\ next_execution <= SlotOf(clock) + CONTROL_INTERVAL

\* Sequence a is an initial part of sequence b.
IsPrefix(a, b) == Len(a) <= Len(b) /\ a = SubSeq(b, 1, Len(a))
\* What a call or sleep does, without the number it carries.
Kind(c) == <<c.domain, c.service, c.entity, c.option>>
Kinds(q) == [k \in DOMAIN q |-> Kind(q[k])]
Pause == <<"asyncio", "sleep", "", "">>
\* Task t has called _apply_control with this mode.
Dispatched(t, mode) == t.applied = 1 /\ t.target.control_action = mode
\* The numbers task t has passed to device calls.
Written(t) == {t.calls[k].value : k \in {j \in DOMAIN t.calls :
                                          IsDeviceCall(t.calls[j]) /\ t.calls[j].service \in {"set_value", "forcible_charge"}}}

\* C13: on the Huawei profile with a device id, force_charge with power P (a
\* whole number of hundredths of a kW, P >= 0) issues forcible_charge with
\* P * 1000 watts, select_option fixed_charge_discharge and switch turn_on,
\* in this order with a delay after each of the first two, and nothing else;
\* a failed call ends the sequence with the result failure.
C13_HuaweiForceChargeSequence ==
    \A t \in TaskSet :
        (is_huawei /\ config.ha_device_id /\ Dispatched(t, "force_charge")
         /\ t.target.power_setpoint >= 0 /\ t.target.power_setpoint % 10 = 0)
        => LET full == << Call("huawei_solar", "forcible_charge", "ha_device_id",
                                "duration=16", t.target.power_setpoint),
                          Sleep,
                          Call("select", "select_option", "battery_mode_select",
                               "fixed_charge_discharge", -1),
                          Sleep,
                          Call("switch", "turn_on", "grid_charge_switch", "", -1) >>
           IN  /\ IsPrefix(t.calls, full)
               /\ t.result = "True" => t.calls = full
               /\ t.result = "False" => t.pc = "done" /\ Len(t.calls) < Len(full) + 1
               /\ t.pc \in {"feedback", "done"} => t.result \in {"True", "False"}

\* C14: once a device call of a dispatch has failed, the cycle is over: the
\* calls it attempted are an initial part of the sequence of its branch, the
\* failed call being the last (nothing after it, no compensating call), the
\* result is failure and no feedback is posted.
C14_FailureAborts ==
    \A t \in TaskSet :
        (t.result = "False" /\ t.calls # <<>>)
        => /\ t.pc = "done" /\ t.todo = <<>>
           /\ t.feedback = ""
           /\ IsPrefix(t.calls, ApplySteps(t.target.control_action,
                                           t.target.power_setpoint).steps)
           /\ IsDeviceCall(t.calls[Len(t.calls)])
\* A Huawei force_charge whose second device call failed: two device calls,
\* the switch never turned on, no feedback.
C14_Witness ==
    \E t \in TaskSet :
        /\ is_huawei /\ Dispatched(t, "force_charge")
        /\ t.result = "False" /\ Len(DeviceCalls(t)) = 2
        /\ t.pc = "done" /\ t.feedback = ""

\* The Huawei self-use sequence: switch off, delay, mode select, delay, stop.
SelfUseKinds ==
    << <<"switch", "turn_off", "grid_charge_switch", "">>, Pause,
       <<"select", "select_option", "battery_mode_select", "maximise_self_consumption">>,
       Pause,
       <<"huawei_solar", "stop_forcible_charge",
         IF config.ha_device_id THEN "ha_device_id" ELSE "", "">> >>
\* C15: on the Huawei profile self_use issues switch turn_off, select_option
\* maximise_self_consumption and stop_forcible_charge in this order, with a
\* delay between consecutive calls, each after the previous one completed.
C15_HuaweiSelfUseOrder ==
    \A t \in TaskSet :
        (is_huawei /\ Dispatched(t, "self_use"))
        => /\ IsPrefix(Kinds(t.calls), SelfUseKinds)
           /\ t.result = "True" => Kinds(t.calls) = SelfUseKinds
\* A Huawei self_use that succeeded with its three device calls.
C15_Witness ==
    \E t \in TaskSet :
        /\ is_huawei /\ Dispatched(t, "self_use")
        /\ t.result = "True" /\ Len(DeviceCalls(t)) = 3

\* C16 as stated: on the Huawei profile a backup that succeeded has issued
\* switch turn_off, a delay and select_option maximise_self_consumption, and
\* no other device call.
C16_BackupTwoCalls ==
    \A t \in TaskSet :
        (is_huawei /\ Dispatched(t, "backup") /\ t.result = "True")
        => Kinds(t.calls) = SubSeq(SelfUseKinds, 1, 3)
\* C16 amended: on the Huawei profile backup issues the same sequence as
\* self_use: switch turn_off, delay, select_option
\* maximise_self_consumption, delay, stop_forcible_charge.
C16_BackupThreeCalls ==
    \A t \in TaskSet :
        (is_huawei /\ Dispatched(t, "backup"))
        => /\ IsPrefix(Kinds(t.calls), SelfUseKinds)
           /\ t.result = "True" => Kinds(t.calls) = SelfUseKinds
\* A Huawei backup that succeeded, its last device call stop_forcible_charge.
C16_Witness ==
    \E t \in TaskSet :
        /\ is_huawei /\ Dispatched(t, "backup") /\ t.result = "True"
        /\ t.calls[Len(t.calls)].service = "stop_forcible_charge"

\* The mode-select string of the generic profile for a mode.
GenericOption(mode) ==
    CASE mode = "force_charge" -> "Force Charge"
      [] mode = "self_use" -> "Self Use"
      [] mode = "backup" -> "Backup"
\* C17: on the generic profile a dispatch that succeeded has issued exactly
\* one select_option, first, setting the mode select to the string of the
\* action; self_use and backup issue nothing else; force_charge issues one
\* number write to the charge-power entity after it if and only if that
\* entity is configured.
C17_GenericCalls ==
    \A t \in TaskSet :
        (~is_huawei /\ ~is_solaredge /\ t.applied = 1
         /\ t.target.control_action \in {"force_charge", "self_use", "backup"})
        => LET mode == t.target.control_action
               sel  == <<"select", "select_option", "battery_mode_select",
                         GenericOption(mode)>>
               num  == <<"number", "set_value", "battery_charge_power", "">>
               full == IF mode = "force_charge" /\ config.battery_charge_power
                       THEN <<sel, num>> ELSE <<sel>>
           IN  /\ IsPrefix(Kinds(t.calls), full)
               /\ t.result = "True" => Kinds(t.calls) = full
\* Scenario C: a generic self_use that succeeded with one select_option.
C17_Witness ==
    \E t \in TaskSet :
        /\ ~is_huawei /\ ~is_solaredge /\ Dispatched(t, "self_use")
        /\ t.result = "True" /\ Len(t.calls) = 1
        /\ t.calls[1].service = "select_option"

\* C18: every number a dispatch passes to a device call lies in
\* [0, profile max].
C18_PowerClamped ==
    \A t \in TaskSet :
        \A w \in Written(t) : 0 <= w /\ w <= config.battery_max_power

\* The numbers and the command mode a SolarEdge dispatch has written:
\* [charge, discharge, command], -1 for a limit not written.
LastValue(t, entity) ==
    LET idx == {k \in DOMAIN t.calls : t.calls[k].entity = entity} IN
    IF idx = {} THEN -1
    ELSE t.calls[CHOOSE k \in idx : \A j \in idx : j <= k].value
LastOption(t, entity) ==
    LET idx == {k \in DOMAIN t.calls : t.calls[k].entity = entity} IN
    IF idx = {} THEN ""
    ELSE t.calls[CHOOSE k \in idx : \A j \in idx : j <= k].option
WrittenTriple(t) ==
    <<LastValue(t, "battery_charge_power"), LastValue(t, "battery_discharge_power"),
      LastOption(t, "solaredge_command_mode")>>
\* What C19 says each action writes, P the requested power in watts.
SolarEdgeTriple(mode, P) ==
    CASE mode = "force_charge" -> <<P, -1, "Charge from Solar Power and Grid">>
      [] mode = "self_use" ->
            <<config.battery_max_power, config.battery_max_power,
              "Maximize Self Consumption">>
      [] mode = "backup" ->
            <<config.battery_max_power, 0, "Maximize Self Consumption">>
\* C19: on the SolarEdge profile a dispatch that succeeded has written, for
\* force_charge, the requested power (P >= 0, a whole number of hundredths of
\* a kW) as charge limit and "Charge from Solar Power and Grid"; for
\* self_use, the profile max as charge and discharge limit and "Maximize
\* Self Consumption"; for backup, the profile max as charge limit, 0 as
\* discharge limit and "Maximize Self Consumption".
C19_SolarEdgeValues ==
    \A t \in TaskSet :
        (is_solaredge /\ ~is_huawei /\ t.applied = 1 /\ t.result = "True"
         /\ t.target.control_action \in {"force_charge", "self_use", "backup"}
         /\ t.target.power_setpoint >= 0 /\ t.target.power_setpoint % 10 = 0)
        => WrittenTriple(t) = SolarEdgeTriple(t.target.control_action,
                                              t.target.power_setpoint)

\* A cycle that skipped or whose dispatch did not succeed.
NoSuccess(t) ==
    \/ t.outcome \in {"stopped", "disabled", "no_plan", "empty_plan", "no_match",
                      "demo", "raise"}
    \/ t.result \in {"False", "None"}
\* C20: a cycle posts feedback only after its own dispatch returned success;
\* a cycle that skipped or whose dispatch failed posts none; and a cycle
\* starts the POST at most once.
C20_FeedbackAfterSuccess ==
    /\ [](\A t \in TaskSet :
            /\ t.feedback # "" => (t.applied = 1 /\ t.result = "True"
                                   /\ t.outcome = "apply" /\ t.todo = <<>>)
            /\ NoSuccess(t) => t.feedback = "")
    /\ [][~Spawned =>
            \A i \in DOMAIN tasks :
                (i \in DOMAIN tasks' /\ tasks'[i].feedback = "posting"
                 /\ tasks[i].feedback # "posting")
                => (tasks[i].feedback = "" /\ tasks[i].pc = "apply")]_vars
\* A cycle whose dispatch succeeded and whose feedback POST was answered,
\* next to the state of the executor.
C20_Witness ==
    \E t \in TaskSet :
        /\ t.pc = "done" /\ t.result = "True" /\ t.feedback = "ok"
        /\ Len(DeviceCalls(t)) >= 1

\* The step in which the feedback POST of task i ends without a response
\* body: it raised (network error, non-2xx status) or returned nothing.
FeedbackFailedStep(i) ==
    /\ i \in DOMAIN tasks /\ i \in DOMAIN tasks' /\ ~Spawned
    /\ tasks[i].pc = "feedback"
    /\ tasks'[i].feedback \in {"raise", "empty"}
\* C21: a failed feedback POST ends the cycle normally: no exception reaches
\* the cycle, the dispatch keeps its result and its device calls (none is
\* added, none undone), and the step leaves enabled and the armed timer as
\* they were.
C21_FeedbackFailureSwallowed ==
    /\ [](\A t \in TaskSet :
            t.feedback \in {"raise", "empty"}
            => /\ t.pc = "done" /\ t.exc = "" /\ ~t.escaped
               /\ t.result = "True" /\ t.todo = <<>>
               /\ t.calls = ApplySteps(t.target.control_action,
                                       t.target.power_setpoint).steps)
    /\ [][\A i \in DOMAIN tasks :
            FeedbackFailedStep(i)
            => /\ tasks'[i].calls = tasks[i].calls
               /\ tasks'[i].result = tasks[i].result
               /\ enabled' = enabled
               /\ cancel_timer' = cancel_timer
               /\ timers' = timers
               /\ next_execution' = next_execution]_vars
\* A Huawei force_charge whose three device calls went through and whose
\* feedback POST raised, with the executor enabled and armed.
C21_Witness ==
    /\ enabled /\ cancel_timer \in timers
    /\ \E t \in TaskSet :
         /\ t.pc = "done" /\ t.feedback = "raise"
         /\ is_huawei /\ Dispatched(t, "force_charge")
         /\ Len(DeviceCalls(t)) = 3

\* C22: at most one timer is pending, and while the executor is enabled it
\* is the armed one; a step of a running executor that is no timer fire and
\* no step of a cycle (start() among them) leaves next_execution and the
\* armed timer unchanged; the step that starts a stopped executor sets
\* next_execution to the next aligned time and arms that one timer.
C22_StartOnce ==
    /\ [](/\ Cardinality(timers) <= 1
          /\ enabled => timers = {cancel_timer})
    /\ [][(enabled /\ enabled' /\ tasks' = tasks)
            => /\ next_execution' = next_execution
               /\ cancel_timer' = cancel_timer
               /\ timers' = timers]_vars
    /\ [][(~enabled /\ enabled')
            => /\ next_execution' = _get_next_aligned_time(clock)
               /\ cancel_timer' = next_execution'
               /\ timers' = {next_execution'}]_vars
\* The executor started at 13:52 with its one timer armed for 14:00, which
\* has come due and not fired yet: a start() now is the no-op.
C22_Witness ==
    /\ enabled /\ tasks = <<>> /\ last_execution = NoTime
    /\ clock = Epoch /\ next_execution = Epoch
    /\ timers = {Epoch} /\ cancel_timer = Epoch

\* C23: a stopped executor has no timer handle and no pending timer, so
\* the timer that was armed never fires; the step that stops a running
\* executor removes exactly the armed timer and touches no cycle; and a
\* step of a stopped executor that leaves it stopped (a further stop()
\* among them) changes neither handle nor timers and creates no cycle.
C23_StopIdempotent ==
    /\ [](~enabled => cancel_timer = NoTime /\ timers = {})
    /\ [][(enabled /\ ~enabled')
            => /\ timers' = timers \ {cancel_timer}
               /\ cancel_timer' = NoTime
               /\ tasks' = tasks]_vars
    /\ [][(~enabled /\ ~enabled')
            => /\ cancel_timer' = cancel_timer
               /\ timers' = timers
               /\ ~Spawned]_vars
\* The executor was started at 13:52 and stopped before 14:00; the clock
\* has passed 14:00 and no cycle was created.
C23_Witness ==
    /\ ~enabled /\ cancel_timer = NoTime /\ timers = {}
    /\ next_execution = Epoch /\ clock > Epoch
    /\ tasks = <<>>

\* C24: a stopped executor has enabled false, no timer handle, and
\* last_execution and next_execution None.
C24_StateClearedOnStop ==
    ~enabled =>
        /\ cancel_timer = NoTime
        /\ last_execution = NoTime
        /\ next_execution = NoTime

C26_CyclesNeverOverlap ==
    Cardinality({i \in DOMAIN tasks : tasks[i].pc \notin {"spawned", "done"}}) <= 1

\* C27: the step that stops the executor changes no cycle and removes only
\* the armed timer; a cycle inside its dispatch issues the next call of its
\* sequence at each of its steps whether the executor is enabled or not; and
\* a dispatch in which no call failed ends with every call of its sequence
\* issued and the feedback POST made.
C27_StopLeavesCycleRunning ==
    /\ [][(enabled /\ ~enabled')
            => tasks' = tasks /\ timers' = timers \ {cancel_timer}]_vars
    /\ [][~Spawned =>
            \A i \in DOMAIN tasks :
                (i \in DOMAIN tasks' /\ tasks[i].pc = "apply"
                 /\ tasks'[i] # tasks[i])
                => tasks'[i].calls = Append(tasks[i].calls, Head(tasks[i].todo))]_vars
    /\ [](\A t \in TaskSet :
            (t.pc = "done" /\ t.applied = 1 /\ t.exc = ""
             /\ t.result \notin {"False", "None"})
            => /\ t.result = "True"
               /\ t.calls = ApplySteps(t.target.control_action,
                                       t.target.power_setpoint).steps
               /\ t.feedback \in {"ok", "empty", "raise"})
\* The executor was stopped while a Huawei force_charge was under way, and
\* the cycle has since issued all three device calls and posted feedback.
C27_Witness ==
    /\ ~enabled /\ cancel_timer = NoTime /\ timers = {}
    /\ \E t \in TaskSet :
         /\ is_huawei /\ Dispatched(t, "force_charge")
         /\ t.pc = "feedback" /\ Len(DeviceCalls(t)) = 3

\* C28: a manual_override service call with schema-valid data has posted
\* its action, power_kw and duration_minutes to the override endpoint, and
\* no exception left the handler.
C28_OverridePosted ==
    override.request # NoRequest =>
        /\ override.raised = ""
        /\ override.posted = override.request

\* C29: a cycle that read automatic control enabled and a plan that is
\* absent, empty or without an entry for the boundary of the cycle ends as
\* "nothing to do": no exception is raised, the dispatcher is not invoked,
\* no device call is issued and no feedback is posted.
C29_NoMatchNoDispatch ==
    \A t \in TaskSet :
        (t.refreshed \in {"ok", "stale"} /\ AutoOn(t)
         /\ (t.seen.control_plan = "None" \/ NearIdx(t) = {}))
        => /\ t.pc = "done"
           /\ t.outcome \in {"no_plan", "empty_plan", "no_match"}
           /\ t.exc = ""
           /\ t.applied = 0 /\ DeviceCalls(t) = <<>> /\ t.feedback = ""

\* The sensor gives no number: it is absent, "unknown", "unavailable" or a
\* text that is no number.
NoReading(sensor) == sensor.kind \in {"None", "text"}
\* The JSON value j is null when the sensor gives no number and else the
\* number of the sensor divided by divisor.
Converted(j, sensor, divisor) ==
    /\ j.null <=> NoReading(sensor)
    /\ ~j.null => j.value * divisor = sensor.value
\* C30: in the body of a feedback POST actual_soc is null exactly when the
\* SOC sensor gives no number and else its value / 100, actual_power is null
\* exactly when the power sensor gives no number and else its value / 1000;
\* and every dispatch that succeeded posts feedback, whatever the sensors.
C30_FeedbackBody ==
    \A t \in TaskSet :
        /\ t.result = "True" => t.feedback # ""
        /\ t.feedback # ""
           => /\ Converted(t.body.actual_soc, states.soc, 100)
              /\ Converted(t.body.actual_power, states.power, 1000)
\* A feedback POST that was answered with actual_soc null (the SOC sensor
\* is unavailable) and actual_power -1.2 kW.
C30_Witness ==
    \E t \in TaskSet :
        /\ t.feedback = "ok"
        /\ states.soc = Text("unavailable")
        /\ t.body.actual_soc = JsonNull
        /\ t.body.actual_power = Json(-12000)

----------------------------------------------------------------------------
\* The cycles that have run past line 163.
Begun == {t \in TaskSet : t.now # NoTime}
\* The tasks that begin their cycle in this step, the executor enabled.
Beginning ==
    {i \in DOMAIN tasks : /\ ~Spawned /\ enabled
                          /\ tasks[i].pc = "spawned"
                          /\ tasks'[i].pc # "spawned"}

\* C31: a cycle that starts while the executor is enabled records the time
\* of its start as last_execution before anything else: the step in which
\* it begins sets last_execution to now and the task is at the refresh with
\* nothing asked and nothing issued; no other step changes last_execution,
\* whatever becomes of the cycle (skipped, failed in the dispatch, raised);
\* and a cycle that has asked for the refresh, decided, issued a call or
\* raised has a start time, which is not later than last_execution.
C31_LastExecutionRecordedFirst ==
    /\ [](\A t \in TaskSet :
            (t.pc \notin {"spawned", "done"} \/ t.refreshed # ""
                \/ t.calls # <<>> \/ t.exc # ""
                \/ t.outcome \notin {"", "stopped"})
            => t \in Begun /\ t.now <= last_execution)
    /\ [][IF Beginning # {}
          THEN /\ last_execution' = clock
               /\ \A i \in Beginning :
                     tasks'[i] = [tasks[i] EXCEPT !.pc = "refresh",
                                                  !.now = clock]
          ELSE last_execution' = last_execution]_vars
\* A cycle whose dispatch failed at a device call has ended, and
\* last_execution is the time at which it began.
C31_Witness ==
    \E t \in TaskSet :
        /\ t.pc = "done" /\ t.result = "False" /\ DeviceCalls(t) # <<>>
        /\ t.now # NoTime /\ last_execution = t.now

\* The instant an executed_at string names.
InstantOfIso(e) == e.wall - e.offset
\* C32: the body of a feedback POST carries as target_timestamp the
\* timestamp of the plan entry the matcher selected in the same cycle, as
\* it stands in the plan, and as executed_at the time the cycle recorded as
\* last_execution when it began.
C32_FeedbackNamesEntryAndStart ==
    \A t \in TaskSet :
        t.feedback # ""
        => LET m == MatchFrom(t.seen.controls, 1, CurrentAligned(t.now)) IN
           /\ m.found /\ t.target = t.seen.controls[m.idx]
           /\ t.body.target_timestamp = t.seen.controls[m.idx].target_timestamp
           /\ t.now # NoTime /\ InstantOfIso(t.body.executed_at) = t.now
           /\ t.body.executed_at.offset = UtcOffset(t.now)
           /\ last_execution = t.now
\* A feedback POST answered in the zone one hour east of UTC for an entry
\* whose timestamp ends in Z and that is not the first entry of the plan.
C32_Witness ==
    \E t \in TaskSet :
        /\ t.feedback = "ok"
        /\ t.body.target_timestamp.tz = "Z"
        /\ t.body.executed_at.offset = Hour
        /\ Len(t.seen.controls) = 2
        /\ t.target = t.seen.controls[2] /\ t.target # t.seen.controls[1]

\* The positions in the calls of task t that address the command-mode
\* select, and those that write a limit.
ModeWrites(t) ==
    {k \in DOMAIN t.calls : t.calls[k].entity = "solaredge_command_mode"}
LimitWrites(t) == {k \in DOMAIN t.calls : t.calls[k].domain = "number"}
\* The limit entities the SolarEdge branch of mode writes.
SolarEdgeLimits(mode) ==
    (IF config.battery_charge_power THEN {"battery_charge_power"} ELSE {})
    \cup (IF config.battery_discharge_power /\ mode # "force_charge"
          THEN {"battery_discharge_power"} ELSE {})
\* C33: on the SolarEdge profile the select_option on the command mode is
\* the last device call of a dispatch: every limit write of the branch has
\* returned before it is issued and nothing is issued after it; a dispatch
\* that succeeded ends with it, and a dispatch in which a limit write
\* failed has not written the command mode.
C33_SolarEdgeModeLast ==
    \A t \in TaskSet :
        (is_solaredge /\ ~is_huawei /\ t.applied = 1
         /\ t.target.control_action \in {"force_charge", "self_use", "backup"})
        => /\ \A k \in ModeWrites(t) :
                /\ k = Len(t.calls) /\ t.todo = <<>>
                /\ t.calls[k].service = "select_option"
                /\ \A j \in LimitWrites(t) : j < k
                /\ {t.calls[j].entity : j \in LimitWrites(t)}
                      = SolarEdgeLimits(t.target.control_action)
           /\ t.result = "True" => ModeWrites(t) = {Len(t.calls)}
           /\ (t.result = "False" /\ Len(t.calls) \in LimitWrites(t))
                 => ModeWrites(t) = {}
\* A SolarEdge backup whose write of the discharge limit failed after the
\* charge limit had been written: the cycle is over and the command mode was
\* not addressed.
C33_Witness ==
    \E t \in TaskSet :
        /\ is_solaredge /\ ~is_huawei
        /\ t.pc = "done" /\ t.result = "False"
        /\ t.target.control_action = "backup"
        /\ Len(t.calls) = 2
        /\ t.calls[2].entity = "battery_discharge_power"
        /\ ModeWrites(t) = {}

\* C34: between the operations (start(), stop(), timer fires and the steps
\* of the cycles, in any order) the executor holds a timer handle exactly
\* when it is enabled, the timer of the handle is the only one pending
\* while it is enabled, and none is pending while it is not.
C34_TimerArmedIffEnabled ==
    /\ enabled <=> cancel_timer # NoTime
    /\ timers = IF enabled THEN {cancel_timer} ELSE {}
    /\ Cardinality(timers) <= 1
\* The executor was started, its timer fired, it was stopped before the
\* cycle began, and it was started again: one timer is pending.
C34_Witness ==
    /\ enabled /\ Cardinality(timers) = 1 /\ cancel_timer \in timers
    /\ \E t \in TaskSet : t.outcome = "stopped"

\* Task t began in the quarter-hour of the timer fire that created it.
OnTime(t) == CurrentAligned(t.now) = CurrentAligned(t.fired)
C36_CycleAfterStopDoesNothing ==
    /\ [](\A t \in TaskSet :
            t.outcome = "stopped"
            => /\ t.pc = "done" /\ t.now = NoTime /\ t.refreshed = ""
               /\ t.applied = 0 /\ t.calls = <<>> /\ t.todo = <<>>
               /\ t.feedback = "" /\ t.exc = "")
    /\ [][\A i \in DOMAIN tasks :
            (~enabled /\ tasks[i].pc = "spawned" /\ Len(tasks') = Len(tasks)
             /\ tasks'[i] # tasks[i])
            => /\ tasks'[i] = [tasks[i] EXCEPT !.pc = "done",
                                               !.outcome = "stopped"]
               /\ UNCHANGED <<enabled, last_execution, next_execution,
                              cancel_timer, timers, data, override>>]_vars
\* The cycle of 14:00 ran; the task the 14:15 fire created began after
\* stop() and is done with nothing issued, and last_execution is still the
\* start of the 14:00 cycle.
C36_Witness ==
    \E t \in TaskSet :
        /\ ~enabled /\ t.outcome = "stopped" /\ t.pc = "done"
        /\ t.fired = Epoch + CONTROL_INTERVAL
        /\ last_execution = Epoch
        /\ next_execution = Epoch + 2 * CONTROL_INTERVAL

\* The data task t read after the refresh tell nothing of the control
\* status: coordinator.data is None, its "control" entry is None, or the
\* entry lacks the automatic_control_enabled key.
StatusUnavailable(t) ==
    /\ t.refreshed \in {"ok", "stale"}
    /\ ~t.seen.present \/ t.seen.control \in {"None", "no_key"}
\* C37: a cycle that finds the control status unavailable after the refresh
\* is over without invoking the dispatcher, issuing a device call or
\* posting feedback, and no exception leaves it.
C37_NoStatusNoDispatch ==
    \A t \in TaskSet :
        StatusUnavailable(t)
        => /\ t.pc = "done" /\ ~t.escaped
           /\ t.outcome \in {"disabled", "raise"}
           /\ t.applied = 0 /\ t.calls = <<>> /\ t.todo = <<>>
           /\ t.result = "" /\ t.feedback = ""
\* A cycle on a profile without dry-run read data whose "control" entry is
\* None beside a plan with an entry for its boundary: it ended in the
\* handler of line 270 with nothing issued.
C37_Witness ==
    \E t \in TaskSet :
        /\ ~config.dry_run_mode
        /\ t.refreshed = "ok" /\ t.seen.present /\ t.seen.control = "None"
        /\ NearIdx(t) # {}
        /\ t.pc = "done" /\ t.exc = "AttributeError" /\ t.calls = <<>>

\* C38: a dispatch of an action that is none of force_charge, self_use and
\* backup returns False on every profile without a device call, and the
\* cycle posts no feedback; a force_charge on the Huawei profile without
\* ha_device_id likewise issues no device call, does not return True, and
\* the cycle posts no feedback.
C38_UnknownActionNoCalls ==
    \A t \in TaskSet :
        /\ (t.applied = 1
            /\ t.target.control_action \notin {"force_charge", "self_use", "backup"})
           => /\ t.pc = "done" /\ t.result = "False"
              /\ t.calls = <<>> /\ t.todo = <<>> /\ t.feedback = ""
        /\ (t.applied = 1 /\ is_huawei /\ ~config.ha_device_id
            /\ t.target.control_action = "force_charge")
           => /\ t.pc = "done" /\ t.result # "True"
              /\ t.calls = <<>> /\ t.todo = <<>> /\ t.feedback = ""
\* On the SolarEdge profile the entry matched at 14:15 asks for "idle":
\* the dispatcher was invoked and returned False.
C38_Witness ==
    \E t \in TaskSet :
        /\ is_solaredge /\ ~is_huawei
        /\ t.now = Slot /\ t.applied = 1
        /\ t.target.control_action = "idle"
        /\ t.pc = "done" /\ t.result = "False" /\ t.feedback = ""

(* The inverter as the device calls leave it: the state of the grid-charge *)
(* switch, the options of the selects, the limits last written and whether *)
(* a forcible charge is running.  "?" and -1 stand for a state no call of   *)
(* the executor has set.                                                   *)
Untouched ==
    [grid_charge_switch |-> "?", battery_mode_select |-> "?",
     forcible_charge |-> "?", solaredge_command_mode |-> "?",
     battery_charge_power |-> -1, battery_discharge_power |-> -1]
\* The device after call c has returned.
Effect(dev, c) ==
    CASE c.domain = "switch" ->
           [dev EXCEPT !.grid_charge_switch =
                           IF c.service = "turn_on" THEN "on" ELSE "off"]
      [] c.domain = "select" -> [dev EXCEPT ![c.entity] = c.option]
      [] c.domain = "number" -> [dev EXCEPT ![c.entity] = c.value]
      [] c.service = "forcible_charge" -> [dev EXCEPT !.forcible_charge = "on"]
      [] c.service = "stop_forcible_charge" ->
           [dev EXCEPT !.forcible_charge = "off"]
      [] OTHER -> dev
\* The device after the calls of q have returned, in order.
RECURSIVE After(_, _)
After(dev, q) == IF q = <<>> THEN dev ELSE After(Effect(dev, Head(q)), Tail(q))
\* The calls of task t that have returned: a call that raised is the last
\* one of a dispatch that did not return True.
Returned(t) ==
    IF t.pc = "done" /\ t.result # "True" /\ t.calls # <<>>
    THEN SubSeq(t.calls, 1, Len(t.calls) - 1)
    ELSE t.calls
\* The device after a Huawei force_charge of which every call returned.
ForceCharged(power) == After(Untouched, HuaweiForceCharge(power))

\* C39: on the Huawei profile a self_use dispatch that returned True after
\* a force_charge dispatch of which every call returned has undone each of
\* its effects: the grid-charge switch is off, the mode select is at
\* maximise_self_consumption and the forcible charge is stopped; the stop is
\* its last call, so while the dispatch is under way, and after it has
\* failed at any call, the forcible charge is still running, and a failed
\* dispatch issues no further call in its cycle.
C39_SelfUseUndoesForceCharge ==
    \A t \in TaskSet : \A power \in DispatchPowers :
        (is_huawei /\ config.ha_device_id /\ Dispatched(t, "self_use"))
        => LET dev == After(ForceCharged(power), Returned(t)) IN
           /\ ForceCharged(power).grid_charge_switch = "on"
           /\ ForceCharged(power).battery_mode_select = "fixed_charge_discharge"
           /\ ForceCharged(power).forcible_charge = "on"
           /\ t.result = "True"
              => /\ dev.grid_charge_switch = "off"
                 /\ dev.battery_mode_select = "maximise_self_consumption"
                 /\ dev.forcible_charge = "off"
           /\ t.result # "True" => dev.forcible_charge = "on"
           /\ t.result = "False" => t.pc = "done" /\ t.todo = <<>>
\* A Huawei self_use that failed at the select of the mode after the switch
\* was turned off: the forcible charge is still running.
C39_Witness ==
    \E t \in TaskSet :
        /\ is_huawei /\ config.ha_device_id /\ Dispatched(t, "self_use")
        /\ t.pc = "done" /\ t.result = "False"
        /\ Len(DeviceCalls(t)) = 2
        /\ After(ForceCharged(1800), Returned(t)).grid_charge_switch = "off"
        /\ After(ForceCharged(1800), Returned(t)).forcible_charge = "on"

\* The device after a SolarEdge backup of which every call returned.
BackedUp == After(Untouched, SolarEdgeBackup)
\* The entities the calls of task t address.
Addressed(t) == {DeviceCalls(t)[k].entity : k \in DOMAIN DeviceCalls(t)}
====
